---- MODULE Spec2Model ----
(***************************************************************************)
(* Model of CI3LAB/graphrag-in-construction:                               *)
(*   src/retrieval_logger.py  - RetrievalLogger, the JSON-lines log store  *)
(*   src/insert_custom_kg.py  - parse_kg_from_txt, validate_kg_data and    *)
(*                              the driver that feeds LightRAG             *)
(* The log store is checked under Spec (one session) and SpecFiles (a     *)
(* directory of older logs), the parser and driver under SpecKG.           *)
(***************************************************************************)
EXTENDS Integers, Sequences, FiniteSets, TLC

VARIABLES
    files,      \* the file system: path -> [exists, data]
    sid,        \* RetrievalLogger.session_id
    lastOp,     \* the last Log Store call: its arguments, fault and outcome
    session,    \* history of this logger: records handed to log_retrieval
    kgPc,       \* position of the driver / parse_kg_from_txt
    idx,        \* number of chunk markers consumed by the parse loop
    entities,   \* parse_kg_from_txt: entities accumulated so far
    relationships, \* parse_kg_from_txt: relationships accumulated so far
    chunks,     \* parse_kg_from_txt: chunks accumulated so far
    kgResult,   \* what parse_kg_from_txt handed back to the driver
    store       \* what the driver handed to rag.insert_custom_kg

logVars == <<files, sid, lastOp, session>>
kgVars == <<kgPc, idx, entities, relationships, chunks, kgResult, store>>
vars == <<files, sid, lastOp, session, kgPc, idx, entities, relationships,
          chunks, kgResult, store>>

(***************************************************************************)
(* Bounds                                                                  *)
(***************************************************************************)
\* log_retrieval calls made on the logger
MaxAppends == 2
\* lines of a log file that exists before the logger is constructed
MaxPreLines == 3
\* chunk markers in the parsed text
MaxSegs == 2

(***************************************************************************)
(* Small helpers on sequences                                              *)
(***************************************************************************)
RECURSIVE SeqSum(_)
SeqSum(s) == IF s = <<>> THEN 0 ELSE Head(s) + SeqSum(Tail(s))

RECURSIVE Flatten(_)
Flatten(ss) == IF ss = <<>> THEN <<>> ELSE Head(ss) \o Flatten(Tail(ss))

IsPrefix(s, t) == Len(s) <= Len(t) /\ SubSeq(t, 1, Len(s)) = s

SeqsUpTo(S, n) == UNION {[1..k -> S] : k \in 0..n}

(***************************************************************************)
(* RetrievalResult and its JSON form                                       *)
(*                                                                         *)
(* A Python value of a list-typed field is [ty, items]: ty "list" for a    *)
(* list, "none" for None (the dataclass does not check its field types).   *)
(* metadata is {"k": v} with v a str, a list, a tuple or a set.            *)
(* query, timestamp, the keyword lists and final_response are strings,     *)
(* numbers and lists of strings that JSON carries unchanged; they are not  *)
(* represented.                                                            *)
(***************************************************************************)
PyList(items) == [ty |-> "list", items |-> items]
PyNone == [ty |-> "none", items |-> <<>>]

RetrievalResult(mode, ents, rels, tcs, meta) ==
    [query_mode |-> mode, entities |-> ents, relationships |-> rels,
     text_chunks |-> tcs, metadata |-> meta]

RecPlain == RetrievalResult("local", PyList(<<"e", "e">>), PyList(<<"r">>), PyList(<<>>), "str")
RecEmpty == RetrievalResult("global", PyList(<<>>), PyList(<<>>), PyList(<<>>), "list")
RecTuple == RetrievalResult("local", PyList(<<"e">>), PyList(<<>>), PyList(<<"c">>), "tuple")
RecSet == RetrievalResult("global", PyList(<<>>), PyList(<<"r">>), PyList(<<"c">>), "set")
RecNone == RetrievalResult("local", PyNone, PyList(<<>>), PyList(<<>>), "str")

\* the records a caller hands to log_retrieval
RecordSet == {RecPlain, RecEmpty, RecTuple, RecSet, RecNone}

\* json.JSONEncoder: what each Python value is written as
JsonOfMeta(m) ==
    CASE m = "str" -> "string"
      [] m = "list" -> "array"
      [] m = "tuple" -> "array"
      [] OTHER -> "unserializable"

JsonOfList(v) == IF v.ty = "none" THEN [j |-> "null", items |-> <<>>]
                 ELSE [j |-> "array", items |-> v.items]

\* json.JSONDecoder: what each JSON value is read as
PyOfMeta(j) == IF j = "string" THEN "str" ELSE "list"

PyOfList(v) == IF v.j = "null" THEN PyNone ELSE PyList(v.items)

JsonSerializable(r) == JsonOfMeta(r.metadata) # "unserializable"

\* asdict + json.dump of one record: the JSON object text
ToJson(r) ==
    [query_mode |-> r.query_mode, entities |-> JsonOfList(r.entities),
     relationships |-> JsonOfList(r.relationships),
     text_chunks |-> JsonOfList(r.text_chunks),
     metadata |-> JsonOfMeta(r.metadata)]

\* json.loads + RetrievalResult(**result_dict)
FromJson(j) ==
    RetrievalResult(j.query_mode, PyOfList(j.entities), PyOfList(j.relationships),
                    PyOfList(j.text_chunks), PyOfMeta(j.metadata))

(***************************************************************************)
(* File contents: a sequence of text fragments.                            *)
(*   obj   - the complete JSON text of one object (body = <<json>>)        *)
(*   part  - the text json.dump wrote before it raised (body = <<json>>)   *)
(*   nl    - "\n"                                                          *)
(*   ws    - whitespace other than a newline                               *)
(*   junk  - text that is not JSON                                         *)
(*   array - a pretty-printed JSON array of objects (body = the objects)   *)
(***************************************************************************)
Frag(t, body) == [t |-> t, body |-> body]
NL == Frag("nl", <<>>)
WS == Frag("ws", <<>>)
Junk == Frag("junk", <<>>)
ObjFrag(r) == Frag("obj", <<ToJson(r)>>)
PartFrag(r) == Frag("part", <<ToJson(r)>>)
ArrayFrag(recs) == Frag("array", [i \in 1..Len(recs) |-> ToJson(recs[i])])

Absent == [exists |-> FALSE, data |-> <<>>]
FileOf(data) == [exists |-> TRUE, data |-> data]

\* iteration "for line in f": the text split after each newline
RECURSIVE SplitLines(_, _)
SplitLines(data, cur) ==
    IF data = <<>> THEN (IF cur = <<>> THEN <<>> ELSE <<cur>>)
    ELSE IF Head(data).t = "nl" THEN <<cur>> \o SplitLines(Tail(data), <<>>)
    ELSE SplitLines(Tail(data), Append(cur, Head(data)))

Lines(data) == SplitLines(data, <<>>)

\* str.strip() of a line (its newline already split off)
RECURSIVE LStrip(_)
LStrip(line) == IF line # <<>> /\ Head(line).t = "ws" THEN LStrip(Tail(line)) ELSE line

RECURSIVE RStrip(_)
RStrip(line) ==
    IF line # <<>> /\ line[Len(line)].t = "ws"
    THEN RStrip(SubSeq(line, 1, Len(line) - 1)) ELSE line

Strip(line) == RStrip(LStrip(line))

IsBlank(line) == Strip(line) = <<>>

\* json.loads(line) followed by RetrievalResult(**result_dict) returns normally
Deserializable(line) == Len(Strip(line)) = 1 /\ Strip(line)[1].t = "obj"

Deserialize(line) == FromJson(Strip(line)[1].body[1])

(***************************************************************************)
(* Paths.  A per-session log file is retrieval_log_<session_id>.jsonl in   *)
(* the log directory; OutPath is a file outside the glob pattern.          *)
(***************************************************************************)
SessionIds == {9, 10}
LogPath(n) == <<"retrieval_log", n>>
OutPath == <<"export", 0>>
LogPaths == {LogPath(n) : n \in SessionIds}
Paths == LogPaths \cup {OutPath}

\* str(n): the decimal digits of a session id, as character codes
RECURSIVE Digits(_)
Digits(n) == IF n < 10 THEN <<48 + n>> ELSE Append(Digits(n \div 10), 48 + (n % 10))

\* the part of the file name after "retrieval_log_": digits then ".jsonl"
FileName(n) == Digits(n) \o <<46, 106, 115, 111, 110, 108>>

\* string comparison, as sorted() applies it to the paths
RECURSIVE LexLess(_, _)
LexLess(a, b) ==
    IF b = <<>> THEN FALSE
    ELSE IF a = <<>> THEN TRUE
    ELSE IF Head(a) # Head(b) THEN Head(a) < Head(b)
    ELSE LexLess(Tail(a), Tail(b))

(***************************************************************************)
(* RetrievalLogger                                                         *)
(*                                                                         *)
(* Every call takes a fault: the step of the call at which the operating   *)
(* system fails.  "stat" makes Path.exists() raise, "scan" makes the       *)
(* directory scan of Path.glob() raise, "read" makes open(..., 'r') raise, *)
(* "write" makes open(..., 'a') / open(..., 'w') raise.                    *)
(***************************************************************************)
NoPath == <<"none", 0>>

Returned(recs, stats) == [outcome |-> "returned", recs |-> recs, stats |-> stats]
Raised == [outcome |-> "raised", recs |-> <<>>, stats |-> <<>>]

\* file_path = Path(log_file) if log_file else self.log_file
ResolvePath(arg) == IF arg = NoPath THEN LogPath(sid) ELSE arg

\* the loop of load_logs over the lines of the file
RECURSIVE ReadLines(_, _)
ReadLines(lines, results) ==
    IF lines = <<>> THEN [ok |-> TRUE, results |-> results]
    ELSE IF IsBlank(Head(lines)) THEN ReadLines(Tail(lines), results)
    ELSE IF ~Deserializable(Head(lines)) THEN [ok |-> FALSE, results |-> results]
    ELSE ReadLines(Tail(lines), Append(results, Deserialize(Head(lines))))

\* faulty variant of ReadFile: the records read before a bad line are returned
ReadFilePartial(data, fault) ==
    IF fault = "read" THEN <<>> ELSE ReadLines(Lines(data), <<>>).results

\* the try block of load_logs: what it returns for an existing file
ReadFile(data, fault) ==
    IF fault = "read" THEN <<>>
    ELSE LET r == ReadLines(Lines(data), <<>>)
         IN IF r.ok THEN r.results ELSE <<>>

\* load_logs(log_file)
LoadLogs(fs, path, fault) ==
    IF fault = "stat" THEN Raised
    ELSE IF ~fs[path].exists THEN Returned(<<>>, <<>>)
    ELSE Returned(ReadFile(fs[path].data, fault), <<>>)

\* faulty variant of SortByName: the files are ordered by their session id
RECURSIVE SortByTimestamp(_)
SortByTimestamp(S) ==
    IF S = {} THEN <<>>
    ELSE LET m == CHOOSE x \in S : \A y \in S : x <= y
         IN <<m>> \o SortByTimestamp(S \ {m})

\* sorted(self.log_dir.glob("retrieval_log_*.jsonl")), as session ids
RECURSIVE SortByName(_)
SortByName(S) ==
    IF S = {} THEN <<>>
    ELSE LET m == CHOOSE x \in S :
                    \A y \in S \ {x} : LexLess(FileName(x), FileName(y))
         IN <<m>> \o SortByName(S \ {m})

SortedGlob(fs) == SortByName({n \in SessionIds : fs[LogPath(n)].exists})

\* all_results of export_to_json: [outcome, recs, write]
ExportResults(fs, src, fault) ==
    IF src = NoPath
    THEN IF fault = "scan" THEN [outcome |-> "raised", recs |-> <<>>, write |-> FALSE]
         ELSE LET ids == SortedGlob(fs)
                  loads == [i \in 1..Len(ids) |-> LoadLogs(fs, LogPath(ids[i]), fault)]
              IN IF ids = <<>>
                 THEN [outcome |-> "returned", recs |-> <<>>, write |-> FALSE]
                 ELSE IF \E i \in 1..Len(ids) : loads[i].outcome = "raised"
                 THEN [outcome |-> "raised", recs |-> <<>>, write |-> FALSE]
                 ELSE [outcome |-> "returned",
                       recs |-> Flatten([i \in 1..Len(ids) |-> loads[i].recs]),
                       write |-> TRUE]
    ELSE LET l == LoadLogs(fs, src, fault)
         IN IF l.outcome = "raised"
            THEN [outcome |-> "raised", recs |-> <<>>, write |-> FALSE]
            ELSE [outcome |-> "returned", recs |-> l.recs, write |-> TRUE]

\* the try block of export_to_json: the file system after it
WriteExport(fs, out, recs, fault) ==
    IF fault = "write" THEN fs
    ELSE [fs EXCEPT ![out] = FileOf(<<ArrayFrag(recs)>>)]

\* faulty variant of AppendRecord: the newline after the object is not written
AppendRecordNoNewline(file, r, fault) ==
    IF fault = "write" THEN file
    ELSE IF JsonSerializable(r) THEN FileOf(file.data \o <<ObjFrag(r)>>)
    ELSE FileOf(file.data \o <<PartFrag(r)>>)

\* the try block of log_retrieval: the session file after it
AppendRecord(file, r, fault) ==
    IF fault = "write" THEN file
    ELSE IF JsonSerializable(r) THEN FileOf(file.data \o <<ObjFrag(r), NL>>)
    ELSE FileOf(file.data \o <<PartFrag(r)>>)

\* len(x) raises TypeError for None
HasLen(v) == v.ty = "list"

NoResults(r) ==
    r.entities.items = <<>> /\ r.relationships.items = <<>> /\ r.text_chunks.items = <<>>

\* mode_counts[mode] after the loop
ModeCount(recs, m) == Cardinality({i \in 1..Len(recs) : recs[i].query_mode = m})

\* no_results_count after the loop
NoResultsCount(recs) == Cardinality({i \in 1..Len(recs) : NoResults(recs[i])})

\* total / len(results), kept as the fraction
Ratio(total, n) == [num |-> total, den |-> n]

\* the body of get_statistics after load_logs returned `results`
Statistics(results) ==
    IF results = <<>> THEN Returned(<<>>, <<>>)
    ELSE IF \E i \in 1..Len(results) :
               ~(HasLen(results[i].entities) /\ HasLen(results[i].relationships)
                 /\ HasLen(results[i].text_chunks))
    THEN Raised
    ELSE LET modes == {results[i].query_mode : i \in 1..Len(results)}
             n == Len(results)
             total(f(_)) == SeqSum([i \in 1..n |-> Len(f(results[i]).items)])
             ents(r) == r.entities
             rels(r) == r.relationships
             tcs(r) == r.text_chunks
         IN Returned(<<>>, <<[
              total_queries |-> n,
              mode_distribution |->
                  [m \in modes |-> ModeCount(results, m)],
              avg_entities_per_query |-> Ratio(total(ents), n),
              avg_relationships_per_query |-> Ratio(total(rels), n),
              avg_chunks_per_query |-> Ratio(total(tcs), n),
              queries_with_no_results |-> NoResultsCount(results)]>>)

\* get_statistics(log_file)
GetStatistics(fs, path, fault) ==
    LET l == LoadLogs(fs, path, fault)
    IN IF l.outcome = "raised" THEN Raised ELSE Statistics(l.recs)

Call(op, arg, out, fault, res) ==
    [op |-> op, arg |-> arg, out |-> out, fault |-> fault,
     outcome |-> res.outcome, recs |-> res.recs, stats |-> res.stats]

NoCall == Call("init", NoPath, NoPath, "none", Returned(<<>>, <<>>))

(***************************************************************************)
(* Actions of the log store                                                *)
(***************************************************************************)
LogRetrieval(r, fault) ==
    /\ session.n < MaxAppends
    /\ files' = [files EXCEPT ![LogPath(sid)] = AppendRecord(@, r, fault)]
    /\ session' = IF session.clean /\ fault = "none"
                  THEN [session EXCEPT !.n = @ + 1, !.appended = Append(@, r)]
                  ELSE [n |-> session.n + 1, appended |-> <<>>, clean |-> FALSE]
    /\ lastOp' = Call("log_retrieval", NoPath, NoPath, fault, Returned(<<>>, <<>>))
    /\ UNCHANGED <<sid, kgVars>>

LoadLogsOp(arg, fault) ==
    /\ lastOp' = Call("load_logs", arg, NoPath, fault,
                      LoadLogs(files, ResolvePath(arg), fault))
    /\ UNCHANGED <<files, sid, session, kgVars>>

ExportToJson(out, src, fault) ==
    LET e == ExportResults(files, src, fault)
    IN /\ files' = IF e.write THEN WriteExport(files, out, e.recs, fault) ELSE files
       /\ session' = IF files'[LogPath(sid)] = files[LogPath(sid)] THEN session
                     ELSE [n |-> session.n, appended |-> <<>>, clean |-> FALSE]
       /\ lastOp' = Call("export_to_json", src, out, fault,
                         [outcome |-> e.outcome, recs |-> e.recs, stats |-> <<>>])
       /\ UNCHANGED <<sid, kgVars>>

GetStatisticsOp(arg, fault) ==
    /\ lastOp' = Call("get_statistics", arg, NoPath, fault,
                      GetStatistics(files, ResolvePath(arg), fault))
    /\ UNCHANGED <<files, sid, session, kgVars>>

ReadFaults == {"none", "stat", "read"}
AppendFaults == {"none", "write"}
\* the directory scan happens only when no source file is given
ExportFaults(src) == {"none", "stat", "write"} \cup (IF src = NoPath THEN {"scan"} ELSE {})

(***************************************************************************)
(* insert_custom_kg.py: parse_kg_from_txt                                  *)
(*                                                                         *)
(* The text is read one chunk marker at a time.  What follows a marker is  *)
(* a segment: whitespace only, or text that may hold the 'original text:'  *)
(* label, a match of the entity pattern and a match of the relationship    *)
(* pattern.  A field is the text between two '|', a tuple of characters.   *)
(* Markers are numbered consecutively, as in "No.: 1 of all the chunks".   *)
(***************************************************************************)
\* str.strip(), which the \s* around each group of the patterns already did
RECURSIVE TrimLeft(_)
TrimLeft(f) == IF f # <<>> /\ Head(f) = " " THEN TrimLeft(Tail(f)) ELSE f

RECURSIVE TrimRight(_)
TrimRight(f) ==
    IF f # <<>> /\ f[Len(f)] = " " THEN TrimRight(SubSeq(f, 1, Len(f) - 1)) ELSE f

Trim(f) == TrimRight(TrimLeft(f))

\* the fields an entity record may hold; no entity is ever named "b"
RawNames == {<<" ">>, <<"a">>}
RawTypes == {<<>>, <<"t", " ">>}
\* the fields a relationship record may name as its endpoints
RawEndpoints == RawNames \cup {<<" ", "b">>}

\* re.findall over the segment: no match or one match of each pattern
EntityMatches == {<<>>} \cup {<<[name |-> n, type |-> t]>> : n \in RawNames, t \in RawTypes}
RelationMatches ==
    {<<>>} \cup {<<[src |-> a, tgt |-> b]>> : a \in RawEndpoints, b \in RawEndpoints}

Segment(blank, label, ents, rels) ==
    [blank |-> blank, label |-> label, ents |-> ents, rels |-> rels]

Segments ==
    {Segment(TRUE, FALSE, <<>>, <<>>)} \cup
    {Segment(FALSE, l, e, r) : l \in BOOLEAN, e \in EntityMatches, r \in RelationMatches}

\* source_id = f"chunk_{chunk_id}"
SourceId(chunk_id) == <<"chunk", chunk_id>>

\* chunks.append({...}) when the 'original text:' label is found
ChunkRecords(seg, chunk_id) ==
    IF seg.label
    THEN <<[content |-> "text", source_id |-> SourceId(chunk_id),
            source_chunk_index |-> chunk_id]>>
    ELSE <<>>

\* entities.append({...}) for each match of entity_pattern
EntityRecords(seg, chunk_id) ==
    [i \in 1..Len(seg.ents) |->
        [entity_name |-> Trim(seg.ents[i].name), entity_type |-> Trim(seg.ents[i].type),
         source_id |-> SourceId(chunk_id)]]

\* relationships.append({...}) for each match of relation_pattern
RelationRecords(seg, chunk_id) ==
    [i \in 1..Len(seg.rels) |->
        [src_id |-> Trim(seg.rels[i].src), tgt_id |-> Trim(seg.rels[i].tgt),
         source_id |-> SourceId(chunk_id)]]

(***************************************************************************)
(* validate_kg_data                                                        *)
(***************************************************************************)
\* the loop over entities: the first ValueError, or the set of names
RECURSIVE CheckEntities(_, _)
CheckEntities(es, names) ==
    IF es = <<>> THEN [err |-> "", names |-> names]
    ELSE IF Head(es).entity_name = <<>>
    THEN [err |-> "Entity name cannot be empty", names |-> names]
    ELSE IF Head(es).entity_type = <<>>
    THEN [err |-> "Entity type cannot be empty", names |-> names]
    ELSE CheckEntities(Tail(es), names \cup {Head(es).entity_name})

\* faulty variant of CheckRelationships: only the source endpoint is looked up
RECURSIVE CheckRelationshipsSrcOnly(_, _, _)
CheckRelationshipsSrcOnly(rs, names, missing) ==
    IF rs = <<>> THEN [err |-> "", missing |-> missing]
    ELSE IF Head(rs).src_id = <<>>
    THEN [err |-> "Source ID cannot be empty", missing |-> missing]
    ELSE IF Head(rs).tgt_id = <<>>
    THEN [err |-> "Target ID cannot be empty", missing |-> missing]
    ELSE CheckRelationshipsSrcOnly(Tail(rs), names,
            missing \cup ({Head(rs).src_id} \ names))

\* the loop over relationships: the first ValueError, or missing_entities
RECURSIVE CheckRelationships(_, _, _)
CheckRelationships(rs, names, missing) ==
    IF rs = <<>> THEN [err |-> "", missing |-> missing]
    ELSE IF Head(rs).src_id = <<>>
    THEN [err |-> "Source ID cannot be empty", missing |-> missing]
    ELSE IF Head(rs).tgt_id = <<>>
    THEN [err |-> "Target ID cannot be empty", missing |-> missing]
    ELSE CheckRelationships(Tail(rs), names,
            missing \cup ({Head(rs).src_id, Head(rs).tgt_id} \ names))

Payload(es, rs, cs) == [entities |-> es, relationships |-> rs, chunks |-> cs]
NoPayload == Payload(<<>>, <<>>, <<>>)

Failure(msg) == [outcome |-> "ValueError", msg |-> msg, missing |-> {}, payload |-> NoPayload]

\* faulty variant of ValidateKgData: an empty chunk list is accepted
ValidateKgDataNoChunkCheck(es, rs, cs) ==
    LET e == CheckEntities(es, {})
        r == CheckRelationships(rs, e.names, {})
    IN IF e.err # "" THEN Failure(e.err)
       ELSE IF r.err # "" THEN Failure(r.err)
       ELSE [outcome |-> "payload", msg |-> "", missing |-> r.missing,
             payload |-> Payload(es, rs, cs)]

\* validate_kg_data(entities, relationships, chunks), followed by the return
\* statement of parse_kg_from_txt; the lists are handed over as they are
ValidateKgData(es, rs, cs) ==
    LET e == CheckEntities(es, {})
        r == CheckRelationships(rs, e.names, {})
    IN IF e.err # "" THEN Failure(e.err)
       ELSE IF r.err # "" THEN Failure(r.err)
       ELSE IF cs = <<>> THEN Failure("No chunks found")
       ELSE [outcome |-> "payload", msg |-> "", missing |-> r.missing,
             payload |-> Payload(es, rs, cs)]

NotParsed == [outcome |-> "none", msg |-> "", missing |-> {}, payload |-> NoPayload]

(***************************************************************************)
(* Actions of the parser and of the driver                                 *)
(***************************************************************************)
\* one iteration of "for idx, match in enumerate(matches)"
ParseChunk(seg) ==
    /\ kgPc = "parse"
    /\ idx < MaxSegs
    /\ idx' = idx + 1
    /\ IF seg.blank
       THEN UNCHANGED <<entities, relationships, chunks>>
       ELSE /\ chunks' = chunks \o ChunkRecords(seg, idx + 1)
            /\ entities' = entities \o EntityRecords(seg, idx + 1)
            /\ relationships' = relationships \o RelationRecords(seg, idx + 1)
    /\ UNCHANGED <<kgPc, kgResult, store, logVars>>

\* the matches are used up: validate, then return the payload or raise
FinishParse ==
    /\ kgPc = "parse"
    /\ kgResult' = ValidateKgData(entities, relationships, chunks)
    /\ kgPc' = IF kgResult'.outcome = "payload" THEN "parsed" ELSE "failed"
    /\ UNCHANGED <<idx, entities, relationships, chunks, store, logVars>>

\* faulty variant of CanInsert: the driver goes on after a failed parse
CanInsertAfterFailure == kgPc \in {"parsed", "failed"}

\* step 2 of the driver is reached only when step 1 returned
CanInsert == kgPc = "parsed"

\* insert_kg_to_lightrag(kg_data, WORKING_DIR); LightRAG itself may raise
InsertKg(ok) ==
    /\ CanInsert
    /\ store' = IF ok THEN <<kgResult.payload>> ELSE store
    /\ kgPc' = IF ok THEN "done" ELSE "failed"
    /\ UNCHANGED <<idx, entities, relationships, chunks, kgResult, logVars>>

(***************************************************************************)
(* Specifications                                                          *)
(***************************************************************************)
\* the state of the parser's variables while the log store runs
KgIdle ==
    /\ kgPc = "idle" /\ idx = 0 /\ entities = <<>> /\ relationships = <<>>
    /\ chunks = <<>> /\ kgResult = NotParsed /\ store = <<>>

\* log lines another session may have left behind
LineMenu == {<<ObjFrag(RecPlain)>>, <<WS, ObjFrag(RecNone)>>, <<Junk>>, <<WS>>}

TerminatedLines(ls) == Flatten([i \in 1..Len(ls) |-> Append(ls[i], NL)])

PreContents == {Absent} \cup {FileOf(TerminatedLines(ls)) : ls \in SeqsUpTo(LineMenu, MaxPreLines)}

SmallContents == {Absent, FileOf(<<ObjFrag(RecEmpty), NL>>)}

\* int(time.time()): the clock has moved on since the earlier sessions
NewestSession == CHOOSE n \in SessionIds : \A m \in SessionIds : m <= n

StartLogger ==
    /\ sid = NewestSession
    /\ lastOp = NoCall
    /\ session = [n |-> 0, appended |-> <<>>,
                  clean |-> files[LogPath(NewestSession)].data = <<>>]

\* RetrievalLogger.__init__; a file of the same session id may already be there
Init ==
    /\ \E own \in SmallContents :
          files = [p \in Paths |-> IF p = LogPath(NewestSession) THEN own ELSE Absent]
    /\ StartLogger
    /\ KgIdle

Next ==
    \/ \E r \in RecordSet, f \in AppendFaults : LogRetrieval(r, f)
    \/ \E a \in {NoPath, OutPath}, f \in ReadFaults : LoadLogsOp(a, f)
    \/ \E o \in {OutPath, LogPath(sid)}, s \in {NoPath, LogPath(sid)} :
          \E f \in ExportFaults(s) : ExportToJson(o, s, f)
    \/ \E f \in ReadFaults : GetStatisticsOp(NoPath, f)

Spec == Init /\ [][Next]_vars

\* a logger constructed over log files of any content; the files are only read
InitFiles ==
    /\ \E own \in SmallContents, old \in PreContents :
          files = [p \in Paths |-> IF p = LogPath(NewestSession) THEN own
                                   ELSE IF p = OutPath THEN Absent ELSE old]
    /\ StartLogger
    /\ KgIdle

NextFiles ==
    \/ \E a \in {NoPath} \cup LogPaths, f \in ReadFaults : LoadLogsOp(a, f)
    \/ \E s \in {NoPath} \cup LogPaths :
          \E f \in ExportFaults(s) : ExportToJson(OutPath, s, f)
    \/ \E a \in {NoPath} \cup LogPaths, f \in ReadFaults : GetStatisticsOp(a, f)

SpecFiles == InitFiles /\ [][NextFiles]_vars

LogIdle ==
    /\ files = [p \in Paths |-> Absent]
    /\ sid = NewestSession
    /\ lastOp = NoCall
    /\ session = [n |-> 0, appended |-> <<>>, clean |-> TRUE]

InitKG ==
    /\ kgPc = "parse" /\ idx = 0 /\ entities = <<>> /\ relationships = <<>>
    /\ chunks = <<>> /\ kgResult = NotParsed /\ store = <<>>
    /\ LogIdle

NextKG ==
    \/ \E seg \in Segments : ParseChunk(seg)
    \/ FinishParse
    \/ \E ok \in BOOLEAN : InsertKg(ok)

SpecKG == InitKG /\ [][NextKG]_vars

(***************************************************************************)
(* Properties of the log store                                             *)
(***************************************************************************)
\* JSON carries the record without loss
Faithful(r) == JsonSerializable(r) /\ FromJson(ToJson(r)) = r

\* the last call was load_logs() on the session file, with no fault, on a
\* session file that was empty at construction and has only been appended to
LoadedOwnSession ==
    /\ lastOp.op = "load_logs" /\ lastOp.arg = NoPath /\ lastOp.fault = "none"
    /\ session.clean

\* C1 as stated: after log_retrieval of any K records in order, load_logs() on
\* the session file returns exactly those K records, in order, each equal
\* field for field to the record appended.
C1_RoundTripAnyRecords ==
    LoadedOwnSession => lastOp.recs = session.appended

\* C1 amended: after log_retrieval of K records that JSON represents without
\* loss, on a session file that was empty at construction and with no I/O
\* failure, load_logs() returns exactly those K records in append order.
C1_RoundTripFaithfulRecords ==
    (LoadedOwnSession /\ \A i \in 1..Len(session.appended) : Faithful(session.appended[i]))
        => (lastOp.outcome = "returned" /\ lastOp.recs = session.appended)

C1_Witness ==
    /\ LoadedOwnSession
    /\ Len(session.appended) >= 2
    /\ session.appended[1] # session.appended[2]
    /\ \A i \in 1..Len(session.appended) : Faithful(session.appended[i])
    /\ lastOp.recs = session.appended

\* C2: no Log Store operation propagates a failure: whatever step fails, the
\* call returns normally, and with its empty result when a step of reading
\* (checking for, discovering or opening the log files) failed.
C2_NoFailurePropagates ==
    /\ lastOp.outcome = "returned"
    /\ (lastOp.op \in {"load_logs", "get_statistics"} /\ lastOp.fault # "none")
          => (lastOp.recs = <<>> /\ lastOp.stats = <<>>)

\* a non-blank line that json.loads / RetrievalResult(**d) rejects
BadLine(line) == ~IsBlank(line) /\ ~Deserializable(line)

HasBadLine(data) == \E i \in 1..Len(Lines(data)) : BadLine(Lines(data)[i])

\* C5: when load_logs returns for a file that is missing, or that holds a
\* non-blank line which cannot be deserialized (first, middle or last), it
\* returns the empty list, never the records read before the bad line.
C5_NoPartialLoad ==
    (lastOp.op = "load_logs" /\ lastOp.fault # "stat") =>
        LET f == files[ResolvePath(lastOp.arg)]
        IN /\ lastOp.outcome = "returned"
           /\ (~f.exists \/ HasBadLine(f.data)) => lastOp.recs = <<>>

C5_Witness ==
    /\ lastOp.op = "load_logs" /\ lastOp.fault = "none"
    /\ LET ls == Lines(files[ResolvePath(lastOp.arg)].data)
       IN /\ Len(ls) = 3
          /\ Deserializable(ls[1]) /\ BadLine(ls[2]) /\ Deserializable(ls[3])
    /\ lastOp.recs = <<>>

\* the records load_logs gives for the log file of session n
RecordsOf(fs, n) == LoadLogs(fs, LogPath(n), "none").recs

Existing(fs) == {n \in SessionIds : fs[LogPath(n)].exists}

\* the orderings of the existing log files that satisfy Before
Orderings(fs, Before(_, _)) ==
    {q \in [1..Cardinality(Existing(fs)) -> Existing(fs)] :
        \A i, j \in 1..Len(q) : i < j => Before(q[i], q[j])}

ByTimestamp(m, n) == m < n
ByName(m, n) == LexLess(FileName(m), FileName(n))

\* a step that is export_to_json(out) without a source file and without fault
\* writes the records of the log files, concatenated in an order satisfying
\* Before, or nothing when there is no log file
DirectoryExport(Before(_, _)) ==
    (lastOp'.op = "export_to_json" /\ lastOp'.arg = NoPath /\ lastOp'.fault = "none") =>
        IF Existing(files) = {} THEN files' = files
        ELSE \E q \in Orderings(files, Before) :
                files' = [files EXCEPT ![lastOp'.out] =
                    FileOf(<<ArrayFrag(Flatten([i \in 1..Len(q) |-> RecordsOf(files, q[i])]))>>)]

\* C6 as stated: directory-mode export writes the records of every log file,
\* the files taken in ascending order of session timestamp, each file's
\* records in file order; with no log file it writes nothing.
C6_ExportInTimestampOrder == [][DirectoryExport(ByTimestamp)]_vars

\* C6 amended: directory-mode export writes the records of every log file,
\* the files taken in ascending order of file name (string comparison), each
\* file's records in file order; with no log file it writes nothing.
C6_ExportInNameOrder == [][DirectoryExport(ByName)]_vars

C6_Witness ==
    /\ lastOp.op = "export_to_json" /\ lastOp.arg = NoPath /\ lastOp.fault = "none"
    /\ \A n \in SessionIds : files[LogPath(n)].exists /\ RecordsOf(files, n) # <<>>
    /\ files[OutPath].exists
    /\ \E m, n \in SessionIds :
          /\ m < n
          /\ files[OutPath].data = <<ArrayFrag(RecordsOf(files, n) \o RecordsOf(files, m))>>

\* the statistics the claim describes for a non-empty record list
ExpectedStatistics(recs) ==
    [total_queries |-> Len(recs),
     mode_distribution |->
        [m \in {recs[i].query_mode : i \in 1..Len(recs)} |->
            Cardinality({i \in 1..Len(recs) : recs[i].query_mode = m})],
     avg_entities_per_query |->
        Ratio(SeqSum([i \in 1..Len(recs) |-> Len(recs[i].entities.items)]), Len(recs)),
     avg_relationships_per_query |->
        Ratio(SeqSum([i \in 1..Len(recs) |-> Len(recs[i].relationships.items)]), Len(recs)),
     avg_chunks_per_query |->
        Ratio(SeqSum([i \in 1..Len(recs) |-> Len(recs[i].text_chunks.items)]), Len(recs)),
     queries_with_no_results |->
        Cardinality({i \in 1..Len(recs) :
            /\ recs[i].entities.items = <<>>
            /\ recs[i].relationships.items = <<>>
            /\ recs[i].text_chunks.items = <<>>})]

\* C8: for a log file that loads to a non-empty record list get_statistics
\* returns the counts, the per-mode distribution, the three averages and the
\* number of queries without results; with no records it returns the empty
\* mapping.
C8_StatisticsOfLoadedRecords ==
    (lastOp.op = "get_statistics" /\ lastOp.fault = "none") =>
        LET recs == LoadLogs(files, ResolvePath(lastOp.arg), "none").recs
        IN /\ lastOp.outcome = "returned"
           /\ lastOp.stats = IF recs = <<>> THEN <<>> ELSE <<ExpectedStatistics(recs)>>

\* C9: the line sequence of every log file only grows by appended lines, and
\* load_logs, get_statistics and export_to_json change no log file.
C9_AppendOnly ==
    [][\A p \in LogPaths :
          /\ IsPrefix(Lines(files[p].data), Lines(files'[p].data))
          /\ lastOp'.op # "log_retrieval" => files'[p] = files[p]]_vars

(***************************************************************************)
(* Properties of the parser and the driver                                 *)
(***************************************************************************)
Finished == kgResult.outcome # "none"

\* what the fatal checks ask of the extracted sequences
PassesFatalChecks ==
    /\ \A i \in 1..Len(entities) :
          entities[i].entity_name # <<>> /\ entities[i].entity_type # <<>>
    /\ \A i \in 1..Len(relationships) :
          relationships[i].src_id # <<>> /\ relationships[i].tgt_id # <<>>
    /\ chunks # <<>>

\* C3: parse_kg_from_txt returns a payload only if every entity has a name
\* and a type, every relationship has both endpoints and at least one chunk
\* record was produced; in every other case it raises ValueError and returns
\* no payload.
C3_DataIntegrityGate ==
    Finished =>
        IF PassesFatalChecks
        THEN kgResult.outcome = "payload"
        ELSE kgResult.outcome = "ValueError" /\ kgResult.payload = NoPayload

C3_Witness ==
    /\ kgResult.outcome = "ValueError"
    /\ idx = 2 /\ chunks = <<>>
    /\ Len(entities) = 1 /\ Len(relationships) = 1
    /\ kgResult.msg = "No chunks found"

\* C4: for sequences that pass the fatal checks, the missing names validation
\* computes are exactly the relationship endpoints that are no entity name,
\* validation returns normally also when there are some, and the payload's
\* relationships are the extracted ones, same elements in the same order.
C4_MissingReferences ==
    (Finished /\ PassesFatalChecks) =>
        /\ kgResult.outcome = "payload"
        /\ kgResult.missing =
              UNION {{relationships[i].src_id, relationships[i].tgt_id} :
                        i \in 1..Len(relationships)}
                 \ {entities[i].entity_name : i \in 1..Len(entities)}
        /\ kgResult.payload.relationships = relationships

C4_Witness ==
    /\ kgResult.outcome = "payload"
    /\ Len(relationships) = 2
    /\ relationships[1].src_id # relationships[2].src_id
    /\ kgResult.missing = {<<"b">>}
    /\ \E i \in 1..Len(entities) : entities[i].entity_name = relationships[1].src_id

\* C7: the ingestion operation is invoked only after validation returned
\* normally for the complete sequences, with exactly those sequences; when
\* validation raised nothing reaches the store.
C7_NoPartialCommit ==
    /\ store # <<>> =>
          /\ kgResult.outcome = "payload" /\ PassesFatalChecks
          /\ store = <<Payload(entities, relationships, chunks)>>
    /\ kgResult.outcome = "ValueError" => store = <<>>

C7_Witness ==
    /\ store # <<>> /\ kgPc = "done"
    /\ Len(store[1].entities) >= 1 /\ Len(store[1].relationships) >= 1
    /\ Len(store[1].chunks) = 2

\* C10: in every payload returned, the source_id of every entity and of every
\* relationship is the source_id of some chunk record of the payload.
C10_SourceIdsReferToChunks ==
    kgResult.outcome = "payload" =>
        LET ids == {kgResult.payload.chunks[i].source_id :
                        i \in 1..Len(kgResult.payload.chunks)}
        IN /\ \A i \in 1..Len(kgResult.payload.entities) :
                 kgResult.payload.entities[i].source_id \in ids
           /\ \A i \in 1..Len(kgResult.payload.relationships) :
                 kgResult.payload.relationships[i].source_id \in ids

====
